---- MODULE Spec2Model ----
(***************************************************************************)
(* The knowledge-base store of genie-kb (src/kb.py): class KB, a packed    *)
(* per-partition store of tokenised contexts, spans and answers with a     *)
(* frequency-counted vocabulary, and class FactKB, the entity index that   *)
(* wraps it.  Python lists and arrays are sequences (index i of the code   *)
(* is index i+1 here), dicts are functions whose DOMAIN is the key set.    *)
(***************************************************************************)
EXTENDS Integers, Sequences, FiniteSets, TLC

\* Number of API calls of one sequential run.
MaxOps == 4
\* Number of producer threads of one concurrent run, each making one call.
NumThreads == 2

Datasets == {"train", "valid"}
Threads == 1..NumThreads

\* answers=None / entities=None, and a supplied list.
None == [isNone |-> TRUE, v |-> <<>>]
Some(s) == [isNone |-> FALSE, v |-> s]

\* The (context, spans, answers) arguments the callers pass to KB.add.
AddInputs ==
  { [context |-> <<"a", "b", "c">>, spans |-> << <<1, 2>> >>, answers |-> None],
    [context |-> <<"b", "a">>, spans |-> << <<0, 1>>, <<1, 2>> >>, answers |-> Some(<<"x", "b">>)],
    [context |-> <<"c", "c">>, spans |-> << <<1, 2>>, <<0, 1>> >>, answers |-> None],
    [context |-> <<"b">>, spans |-> << <<0, 1>> >>, answers |-> Some(<<"y">>)],
    [context |-> <<"a">>, spans |-> <<>>, answers |-> None],
    [context |-> <<"c", "a">>, spans |-> <<>>, answers |-> Some(<<>>)],
    [context |-> <<"a", "c">>, spans |-> << <<0, 1>> >>, answers |-> Some(<<"x", "y">>)] }

VARIABLES kb, fkb, lock, flock, log, th

vars == <<kb, fkb, lock, flock, log, th>>

----------------------------------------------------------------------------
(* Python built-ins *)

Max(a, b) == IF a >= b THEN a ELSE b

Min(a, b) == IF a <= b THEN a ELSE b

\* lst[i] raises IndexError outside [-len, len); a negative i counts from the end.
PyIndexOK(s, i) == -Len(s) <= i /\ i < Len(s)

PyGet(s, i) == IF i >= 0 THEN s[i + 1] ELSE s[Len(s) + i + 1]

\* s[a:b] for a, b >= 0: both ends are clamped to len(s), empty when a >= b.
Slice(s, a, b) ==
  LET lo == Min(a, Len(s))
      hi == Min(b, Len(s))
  IN IF lo >= hi THEN <<>> ELSE SubSeq(s, lo + 1, hi)

Reverse(s) == [i \in 1..Len(s) |-> s[Len(s) + 1 - i]]

\* The element of a singleton set: The({e(x) : x \in {v}}) is e(v), with v
\* evaluated once.
The(S) == CHOOSE x \in S : TRUE

\* The outcome of an accessor: a value, or the exception it raises.
Ok(v) == [err |-> "none", val |-> v]
Err(e) == [err |-> e, val |-> <<>>]

----------------------------------------------------------------------------
(* class KB *)

Free == 0

KB_init ==
  [contexts |-> <<>>, starts |-> <<>>, ends |-> <<>>, answers |-> <<>>,
   context_offsets |-> <<>>, span_offsets |-> <<>>,
   vocab |-> <<>>, answer_vocab |-> <<>>,
   count |-> <<>>, answer_count |-> <<>>,
   ids |-> <<>>, answer_ids |-> <<>>,
   max_context_length |-> 0, max_span_length |-> 0,
   ordered |-> FALSE]

add_to_vocab(k, key) ==
  LET k1 == IF key \notin DOMAIN k.ids
            THEN [k EXCEPT !.ids = (key :> Len(k.vocab)) @@ @,
                           !.vocab = Append(@, key),
                           !.count = Append(@, 0)]
            ELSE k
      i == k1.ids[key]
  IN [kb |-> [k1 EXCEPT !.count[i + 1] = @ + 1], id |-> i]

add_to_answer_vocab(k, key) ==
  LET k1 == IF key \notin DOMAIN k.answer_ids
            THEN [k EXCEPT !.answer_ids = (key :> Len(k.answer_vocab)) @@ @,
                           !.answer_vocab = Append(@, key),
                           !.answer_count = Append(@, 0)]
            ELSE k
      i == k1.answer_ids[key]
  IN [kb |-> [k1 EXCEPT !.answer_count[i + 1] = @ + 1], id |-> i]

\* Mutant: the assertion on the span list is gone.
spans_ok_any(spn) == TRUE

\* assert len(spans) > 0
spans_ok(spn) == Len(spn) > 0

\* Mutant: creating a partition replaces the six stores, dropping the others.
create_partition_reset(k, dataset) ==
  IF dataset \notin DOMAIN k.contexts
  THEN [k EXCEPT !.contexts = (dataset :> <<>>),
                 !.starts = (dataset :> <<>>),
                 !.ends = (dataset :> <<>>),
                 !.answers = (dataset :> <<>>),
                 !.context_offsets = (dataset :> <<>>),
                 !.span_offsets = (dataset :> <<>>)]
  ELSE k

\* if dataset not in self.__contexts: create the six per-partition stores
create_partition(k, dataset) ==
  IF dataset \notin DOMAIN k.contexts
  THEN [k EXCEPT !.contexts = (dataset :> <<>>) @@ @,
                 !.starts = (dataset :> <<>>) @@ @,
                 !.ends = (dataset :> <<>>) @@ @,
                 !.answers = (dataset :> <<>>) @@ @,
                 !.context_offsets = (dataset :> <<>>) @@ @,
                 !.span_offsets = (dataset :> <<>>) @@ @]
  ELSE k

append_offsets(k, dataset) ==
  [k EXCEPT !.context_offsets[dataset] = Append(@, Len(k.contexts[dataset])),
            !.span_offsets[dataset] = Append(@, Len(k.starts[dataset]))]

\* self.__contexts[dataset].extend(self.__add_to_vocab(w) for w in context)
RECURSIVE extend_context(_, _, _)
extend_context(k, dataset, context) ==
  IF context = <<>> THEN k
  ELSE The({extend_context([r.kb EXCEPT !.contexts[dataset] = Append(@, r.id)],
                           dataset, Tail(context)) :
              r \in {add_to_vocab(k, Head(context))}})

\* Mutant: the span's start is stored as its end too.
store_span_start_twice(k, dataset, span) ==
  [k EXCEPT !.starts[dataset] = Append(@, span[1]),
            !.ends[dataset] = Append(@, span[1])]

store_span(k, dataset, span) ==
  [k EXCEPT !.starts[dataset] = Append(@, span[1]),
            !.ends[dataset] = Append(@, span[2])]

RECURSIVE append_spans(_, _, _)
append_spans(k, dataset, spn) ==
  IF spn = <<>> THEN k
  ELSE append_spans(store_span(k, dataset, Head(spn)), dataset, Tail(spn))

\* Mutant: answers are interned in the answer vocabulary only.
RECURSIVE append_answers_no_vocab(_, _, _)
append_answers_no_vocab(k, dataset, ans) ==
  IF ans = <<>> THEN k
  ELSE The({append_answers_no_vocab(
                 [r.kb EXCEPT !.answers[dataset] = Append(@, r.id)],
                 dataset, Tail(ans)) :
              r \in {add_to_answer_vocab(k, Head(ans))}})

RECURSIVE append_answers(_, _, _)
append_answers(k, dataset, ans) ==
  IF ans = <<>> THEN k
  ELSE The({append_answers(
                 add_to_vocab([r.kb EXCEPT !.answers[dataset] = Append(@, r.id)],
                              Head(ans)).kb,
                 dataset, Tail(ans)) :
              r \in {add_to_answer_vocab(k, Head(ans))}})

update_max(k, context, spn) ==
  [k EXCEPT !.max_context_length = Max(@, Len(context)),
            !.max_span_length = Max(@, Len(spn))]

\* Mutant: add leaves the ordered flag alone.
mark_unordered_skip(k) == k

\* self.__ordered = False
mark_unordered(k) == [k EXCEPT !.ordered = FALSE]

\* The body of KB.add that runs with the lock held; raised says whether an
\* assertion failed (the state reached by then is kept: nothing is undone).
KB_add_locked(k, context, spn, ans, dataset) ==
  LET k0 == mark_unordered(k)
  IN IF ~spans_ok(spn) THEN [kb |-> k0, raised |-> TRUE]
     ELSE LET k1 == append_offsets(create_partition(k0, dataset), dataset)
              k2 == extend_context(k1, dataset, context)
              k3 == append_spans(k2, dataset, spn)
          IN IF ~ans.isNone /\ DOMAIN k3.answers # {}
             THEN IF Len(ans.v) # Len(spn)
                  THEN [kb |-> k3, raised |-> TRUE]
                  ELSE [kb |-> update_max(append_answers(k3, dataset, ans.v), context, spn),
                        raised |-> FALSE]
             ELSE [kb |-> update_max(k3, context, spn), raised |-> FALSE]

KB_num_contexts(k, dataset) ==
  IF dataset \in DOMAIN k.context_offsets THEN Len(k.context_offsets[dataset]) ELSE 0

KB_context(k, i, dataset) ==
  IF dataset \notin DOMAIN k.context_offsets THEN Err("KeyError")
  ELSE LET offs == k.context_offsets[dataset]
       IN IF ~PyIndexOK(offs, i) THEN Err("IndexError")
          ELSE LET offset == PyGet(offs, i)
                   end == IF i + 1 < Len(offs) THEN PyGet(offs, i + 1)
                          ELSE Len(k.contexts[dataset])
               IN Ok(Slice(k.contexts[dataset], offset, end))

KB_spans(k, i, dataset) ==
  IF dataset \notin DOMAIN k.span_offsets THEN Err("KeyError")
  ELSE LET offs == k.span_offsets[dataset]
       IN IF ~PyIndexOK(offs, i) THEN Err("IndexError")
          ELSE LET offset == PyGet(offs, i)
                   end == IF i + 1 < Len(offs) THEN PyGet(offs, i + 1)
                          ELSE Len(k.starts[dataset])
               IN Ok(<<Slice(k.starts[dataset], offset, end),
                       Slice(k.ends[dataset], offset, end)>>)

\* The else branch calls self.context(dataset, i), i.e. context(i=dataset,
\* dataset=i): self.__context_offsets has no integer key, so it raises KeyError.
KB_answers(k, i, dataset) ==
  IF dataset \notin DOMAIN k.span_offsets THEN Err("KeyError")
  ELSE LET offs == k.span_offsets[dataset]
       IN IF ~PyIndexOK(offs, i) THEN Err("IndexError")
          ELSE LET offset == PyGet(offs, i)
                   end == IF i + 1 < Len(offs) THEN PyGet(offs, i + 1)
                          ELSE Len(k.answers[dataset])
               IN IF DOMAIN k.answers # {}
                  THEN Ok(Slice(k.answers[dataset], offset, end))
                  ELSE Err("KeyError")

KB_id(k, word, fallback) == IF word \in DOMAIN k.ids THEN k.ids[word] ELSE fallback

\* np.argsort(count): the permutations that sort count ascending.  The default
\* kind is quicksort, which is not stable: equal counts come out in any order.
RECURSIVE argsort_from(_, _)
argsort_from(c, rest) ==
  IF rest = {} THEN {<<>>}
  ELSE LET least == {i \in rest : \A j \in rest : c[i + 1] <= c[j + 1]}
       IN UNION {{<<i>> \o p : p \in argsort_from(c, rest \ {i})} : i \in least}

argsort(c) == argsort_from(c, 0..(Len(c) - 1))

\* Mutant: the ascending order argsort returned is kept.
descending_kept(p) == p

\* [::-1]
descending(p) == Reverse(p)

\* mapping[k] = i for i, k in enumerate(sorted)
id_mapping(sorted) ==
  [k \in 1..Len(sorted) |-> CHOOSE i \in 0..(Len(sorted) - 1) : sorted[i + 1] = k - 1]

\* Mutant: the symbol-to-id map keeps the old ids.
remap_ids_skip(ids, mapping) == ids

\* for w, i in self.__ids.items(): self.__ids[w] = mapping[i]
remap_ids(ids, mapping) == [w \in DOMAIN ids |-> mapping[ids[w] + 1]]

\* Mutant: the stored context arrays keep the old ids.
remap_contexts_skip(ctxs, mapping) == ctxs

\* for _, ctxt in self.__contexts.items(): ctxt[i] = mapping[ctxt[i]]
remap_contexts(ctxs, mapping) ==
  [d \in DOMAIN ctxs |-> [j \in 1..Len(ctxs[d]) |-> mapping[ctxs[d][j] + 1]]]

\* Mutant: the pass runs whatever the flag says.
needs_order_always(k) == TRUE

\* if not self.__ordered
needs_order(k) == ~k.ordered

\* order_vocab_by_freq, p being what np.argsort returned.
KB_order_vocab_by_freq(k, p) ==
  IF needs_order(k)
  THEN LET sorted == descending(p)
           mapping == id_mapping(sorted)
       IN [k EXCEPT !.vocab = [i \in 1..Len(sorted) |-> k.vocab[sorted[i] + 1]],
                    !.count = [i \in 1..Len(sorted) |-> k.count[sorted[i] + 1]],
                    !.ids = remap_ids(@, mapping),
                    !.contexts = remap_contexts(@, mapping),
                    !.ordered = TRUE]
  ELSE k

\* Mutant: an exception leaves the lock held (no finally).
lock_release_unless_raised(holder, raised) == IF raised THEN holder ELSE Free

\* finally: self.__lock.release()
lock_release(holder, raised) == Free

----------------------------------------------------------------------------
(* class FactKB *)

FactKB_init ==
  [entity_vocab |-> <<>>, entity_ids |-> <<>>,
   entity_ctxt |-> <<>>, entity_ctxt_span |-> <<>>, facts |-> <<>>]

\* '_'.join(tokens)
RECURSIVE join(_)
join(tokens) ==
  IF tokens = <<>> THEN ""
  ELSE IF Len(tokens) = 1 THEN tokens[1]
  ELSE tokens[1] \o "_" \o join(Tail(tokens))

\* assert entities is None or len(entities) == len(entity_spans)
entities_ok(entities, entity_spans) ==
  entities.isNone \/ Len(entities.v) = Len(entity_spans)

\* ['_'.join(fact[span[0]:span[1]]) for span in entity_spans] if entities is None
entity_names(fact, entity_spans, entities) ==
  IF entities.isNone
  THEN [j \in 1..Len(entity_spans) |->
          join(Slice(fact, entity_spans[j][1], entity_spans[j][2]))]
  ELSE entities.v

\* Mutant: a new partition starts with no entity lists (no backfill).
fact_create_partition_bare(f, dataset) ==
  IF dataset \notin DOMAIN f.facts
  THEN [f EXCEPT !.facts = (dataset :> <<>>) @@ @,
                 !.entity_ctxt = (dataset :> <<>>) @@ @,
                 !.entity_ctxt_span = (dataset :> <<>>) @@ @]
  ELSE f

\* if dataset not in self.__facts: one empty list per known entity
fact_create_partition(f, dataset) ==
  IF dataset \notin DOMAIN f.facts
  THEN LET empties == [i \in 1..Cardinality(DOMAIN f.entity_ids) |-> <<>>]
       IN [f EXCEPT !.facts = (dataset :> <<>>) @@ @,
                    !.entity_ctxt = (dataset :> empties) @@ @,
                    !.entity_ctxt_span = (dataset :> empties) @@ @]
  ELSE f

\* if e not in self.__entity_ids: a new id, and an empty list in every partition
intern_entity(f, e) ==
  IF e \notin DOMAIN f.entity_ids
  THEN [f EXCEPT !.entity_ids = (e :> Len(f.entity_vocab)) @@ @,
                 !.entity_vocab = Append(@, e),
                 !.entity_ctxt = [ds \in DOMAIN @ |-> Append(@[ds], <<>>)],
                 !.entity_ctxt_span =
                    [ds \in DOMAIN f.entity_ctxt |-> Append(@[ds], <<>>)]]
  ELSE f

\* for e, (start, end) in zip(entities, entity_spans)
RECURSIVE index_entities(_, _, _, _, _)
index_entities(f, dataset, entities, entity_spans, fact_id) ==
  IF entities = <<>> \/ entity_spans = <<>> THEN f
  ELSE The({LET id == f1.entity_ids[Head(entities)]
                f2 == [f1 EXCEPT !.entity_ctxt[dataset][id + 1] = Append(@, fact_id),
                                 !.entity_ctxt_span[dataset][id + 1] =
                                    Append(@, Head(entity_spans)),
                                 !.facts[dataset] = Append(@, fact_id)]
            IN index_entities(f2, dataset, Tail(entities), Tail(entity_spans), fact_id) :
              f1 \in {intern_entity(f, Head(entities))}})

\* Mutant: only the first (entity, span) pair of a fact is indexed.
FactKB_index_first(f, dataset, entities, entity_spans, fact_id) ==
  index_entities(fact_create_partition(f, dataset), dataset,
                 SubSeq(entities, 1, 1), SubSeq(entity_spans, 1, 1), fact_id)

\* The part of FactKB.add after self.__kb.add has returned fact_id.
FactKB_index(f, dataset, entities, entity_spans, fact_id) ==
  index_entities(fact_create_partition(f, dataset), dataset,
                 entities, entity_spans, fact_id)

\* finally: self.__lock.release()
flock_release(holder, raised) == Free

\* FactKB.add between acquiring and releasing its lock.  An assertion that fails
\* (here, or inside self.__kb.add) ends the call: the entity index is not touched.
FactKB_add(k, f, fact, entity_spans, entities, dataset) ==
  IF ~entities_ok(entities, entity_spans)
  THEN [kb |-> k, fkb |-> f, raised |-> TRUE, ret |-> -1]
  ELSE The({IF r.raised
            THEN [kb |-> r.kb, fkb |-> f, raised |-> TRUE, ret |-> -1]
            ELSE [kb |-> r.kb,
                  fkb |-> FactKB_index(f, dataset,
                                       entity_names(fact, entity_spans, entities),
                                       entity_spans, KB_num_contexts(r.kb, dataset) - 1),
                  raised |-> FALSE,
                  ret |-> KB_num_contexts(r.kb, dataset) - 1] :
              r \in {KB_add_locked(k, fact, entity_spans,
                                   Some(entity_names(fact, entity_spans, entities)),
                                   dataset)}})

\* A Python argument that may be a str, an int or None.
PyStr(s) == [tag |-> "str", s |-> s, n |-> 0]
PyInt(n) == [tag |-> "int", s |-> "", n |-> n]
PyNone == [tag |-> "none", s |-> "", n |-> 0]

\* self.__entity_ids.get(entity)
entity_ids_get(f, name) ==
  IF name \in DOMAIN f.entity_ids THEN PyInt(f.entity_ids[name]) ELSE PyNone

FactKB_facts_about(f, entity, dataset) ==
  LET id == IF entity.tag = "str" THEN entity_ids_get(f, entity.s) ELSE entity
  IN IF id.tag = "none" THEN Ok(<<>>)
     ELSE IF dataset \notin DOMAIN f.entity_ctxt THEN Err("KeyError")
     ELSE IF ~PyIndexOK(f.entity_ctxt[dataset], id.n) THEN Err("IndexError")
     ELSE Ok(PyGet(f.entity_ctxt[dataset], id.n))

\* return self.__entity_ctxt[dataset][fact_id], self.__entity_ctxt_span[dataset][fact_id]
FactKB_fact_entities(f, fact_id, dataset) ==
  IF dataset \notin DOMAIN f.entity_ctxt THEN Err("KeyError")
  ELSE IF ~PyIndexOK(f.entity_ctxt[dataset], fact_id) THEN Err("IndexError")
  ELSE IF ~PyIndexOK(f.entity_ctxt_span[dataset], fact_id) THEN Err("IndexError")
  ELSE Ok(<<PyGet(f.entity_ctxt[dataset], fact_id),
            PyGet(f.entity_ctxt_span[dataset], fact_id)>>)

----------------------------------------------------------------------------
(* Sequential use: one caller, every call runs to completion. *)

Thread_init ==
  [pc |-> "idle", kind |-> "", dataset |-> "", context |-> <<>>, spans |-> <<>>,
   given |-> None, answers |-> None, raised |-> FALSE, ret |-> -1]

Init ==
  /\ kb = KB_init
  /\ fkb = FactKB_init
  /\ lock = Free
  /\ flock = Free
  /\ log = <<>>
  /\ th = [t \in Threads |-> Thread_init]

\* KB.add(context, spans, answers, dataset), from acquire to return or raise.
Add ==
  \E d \in Datasets, c \in AddInputs :
    /\ Len(log) < MaxOps
    /\ lock = Free
    /\ LET r == KB_add_locked(kb, c.context, c.spans, c.answers, d)
       IN /\ kb' = r.kb
          /\ lock' = lock_release(1, r.raised)
          /\ log' = Append(log, [op |-> "add", dataset |-> d, context |-> c.context,
                                 spans |-> c.spans, answers |-> c.answers,
                                 raised |-> r.raised,
                                 ret |-> IF r.raised THEN -1
                                         ELSE KB_num_contexts(r.kb, d) - 1])
    /\ UNCHANGED <<fkb, flock, th>>

\* KB.order_vocab_by_freq()
OrderVocabByFreq ==
  \E p \in argsort(kb.count) :
    /\ Len(log) < MaxOps
    /\ kb' = KB_order_vocab_by_freq(kb, p)
    /\ log' = Append(log, [op |-> "order", dataset |-> "", context |-> <<>>,
                           spans |-> <<>>, answers |-> None,
                           raised |-> FALSE, ret |-> -1])
    /\ UNCHANGED <<fkb, lock, flock, th>>

Next == Add \/ OrderVocabByFreq

Spec == Init /\ [][Next]_vars

----------------------------------------------------------------------------
(* Sequential use of a FactKB: facts go in through FactKB.add only. *)

\* The (fact, entity_spans, entities) a caller passes; entities=None derives the
\* names from the spans.  The fourth has no span (self.__kb.add raises), the
\* fifth names two entities for one span (FactKB.add raises).
FactInputs ==
  { [fact |-> <<"Paris", "capital", "of", "France">>,
     entity_spans |-> <<<<0, 1>>, <<3, 4>>>>, entities |-> None],
    [fact |-> <<"France", "in", "Europe">>,
     entity_spans |-> <<<<0, 1>>, <<2, 3>>>>, entities |-> Some(<<"France", "Europe">>)],
    [fact |-> <<"Paris", "Paris">>,
     entity_spans |-> <<<<0, 1>>, <<1, 2>>>>, entities |-> None],
    [fact |-> <<"Europe">>, entity_spans |-> <<>>, entities |-> None],
    [fact |-> <<"Paris", "France">>,
     entity_spans |-> <<<<0, 1>>>>, entities |-> Some(<<"Paris", "France">>)],
    [fact |-> <<"New", "York">>, entity_spans |-> <<<<0, 2>>>>, entities |-> None] }

\* FactKB.add(fact, entity_spans, entities, dataset), from acquire to return or raise.
FactAdd ==
  \E d \in Datasets, c \in FactInputs :
    /\ Len(log) < MaxOps
    /\ flock = Free
    /\ lock = Free
    /\ \E r \in {FactKB_add(kb, fkb, c.fact, c.entity_spans, c.entities, d)} :
         /\ kb' = r.kb
         /\ fkb' = r.fkb
         /\ lock' = lock_release(1, r.raised)
         /\ flock' = flock_release(1, r.raised)
         /\ log' = Append(log, [op |-> "fact_add", dataset |-> d, context |-> c.fact,
                                spans |-> c.entity_spans, answers |-> c.entities,
                                raised |-> r.raised, ret |-> r.ret])
    /\ UNCHANGED th

NextFact == FactAdd

SpecFact == Init /\ [][NextFact]_vars

----------------------------------------------------------------------------
(* Concurrent use: every thread makes one call, KB.add on the store or     *)
(* FactKB.add on the FactKB that wraps it.  A thread switch can fall       *)
(* between any two statements; the statements a call runs with the KB lock *)
(* held are one step, since the only other code that touches the store is  *)
(* another add, which waits for that lock, and num_contexts, which reads   *)
(* the length of a list.                                                   *)

\* The arguments the producer threads pass to KB.add.
ThreadAddInputs ==
  { [context |-> <<"a", "b", "c">>, spans |-> << <<1, 2>> >>, answers |-> None],
    [context |-> <<"b", "a">>, spans |-> << <<0, 1>>, <<1, 2>> >>, answers |-> Some(<<"x", "b">>)],
    [context |-> <<"a">>, spans |-> <<>>, answers |-> None],
    [context |-> <<"a", "c">>, spans |-> << <<0, 1>> >>, answers |-> Some(<<"x", "y">>)] }

\* The (fact, entity_spans, entities) arguments passed to FactKB.add.
ThreadFactInputs ==
  { [context |-> <<"p", "of", "f">>, spans |-> << <<0, 1>>, <<2, 3>> >>, answers |-> None],
    [context |-> <<"f", "in", "e">>, spans |-> << <<0, 1>>, <<2, 3>> >>, answers |-> Some(<<"f", "e">>)],
    [context |-> <<"p", "p">>, spans |-> << <<0, 2>> >>, answers |-> Some(<<>>)],
    [context |-> <<"e">>, spans |-> <<>>, answers |-> None] }

ThreadDatasets == {"train"}

\* The thread enters KB.add or FactKB.add.
Call(t) ==
  /\ th[t].pc = "idle"
  /\ \E d \in ThreadDatasets :
       \/ \E c \in ThreadAddInputs :
            th' = [th EXCEPT ![t] = [@ EXCEPT !.pc = "kb_acquire", !.kind = "kb",
                                              !.dataset = d, !.context = c.context,
                                              !.spans = c.spans, !.given = c.answers,
                                              !.answers = c.answers]]
       \/ \E c \in ThreadFactInputs :
            th' = [th EXCEPT ![t] = [@ EXCEPT !.pc = "f_acquire", !.kind = "fact",
                                              !.dataset = d, !.context = c.context,
                                              !.spans = c.spans, !.given = c.answers]]
  /\ UNCHANGED <<kb, fkb, lock, flock, log>>

\* KB.add: self.__lock.acquire()
KBAcquire(t) ==
  /\ th[t].pc = "kb_acquire"
  /\ lock = Free
  /\ lock' = t
  /\ th' = [th EXCEPT ![t].pc = "kb_locked"]
  /\ UNCHANGED <<kb, fkb, flock, log>>

\* KB.add: the statements between acquire and finally
KBLocked(t) ==
  /\ th[t].pc = "kb_locked"
  /\ \E r \in {KB_add_locked(kb, th[t].context, th[t].spans, th[t].answers, th[t].dataset)} :
       /\ kb' = r.kb
       /\ th' = [th EXCEPT ![t] = [@ EXCEPT !.pc = "kb_release", !.raised = r.raised]]
  /\ UNCHANGED <<fkb, lock, flock, log>>

\* KB.add: finally; an assertion error then propagates to the caller
KBRelease(t) ==
  /\ th[t].pc = "kb_release"
  /\ lock' = lock_release(t, th[t].raised)
  /\ th' = [th EXCEPT ![t].pc = IF ~th[t].raised THEN "kb_return"
                                ELSE IF th[t].kind = "kb" THEN "raised"
                                ELSE "f_release"]
  /\ UNCHANGED <<kb, fkb, flock, log>>

\* KB.add: return self.num_contexts(dataset)-1, after the lock is released
KBReturn(t) ==
  /\ th[t].pc = "kb_return"
  /\ th' = [th EXCEPT ![t] = [@ EXCEPT !.ret = KB_num_contexts(kb, th[t].dataset) - 1,
                                        !.pc = IF th[t].kind = "kb" THEN "done"
                                               ELSE "f_index"]]
  /\ UNCHANGED <<kb, fkb, lock, flock, log>>

\* Mutant: acquire does not wait for the holder of the FactKB lock.
flock_acquirable_always(holder) == TRUE

\* Lock.acquire() returns only when no thread holds the lock.
flock_acquirable(holder) == holder = Free

\* FactKB.add: self.__lock.acquire()
FAcquire(t) ==
  /\ th[t].pc = "f_acquire"
  /\ flock_acquirable(flock)
  /\ flock' = t
  /\ th' = [th EXCEPT ![t].pc = "f_check"]
  /\ UNCHANGED <<kb, fkb, lock, log>>

\* FactKB.add: the assertion and the entity names, up to the call of kb.add
FCheck(t) ==
  /\ th[t].pc = "f_check"
  /\ th' = [th EXCEPT ![t] =
              IF entities_ok(th[t].given, th[t].spans)
              THEN [@ EXCEPT !.pc = "kb_acquire",
                             !.answers = Some(entity_names(th[t].context, th[t].spans,
                                                           th[t].given))]
              ELSE [@ EXCEPT !.pc = "f_release", !.raised = TRUE]]
  /\ UNCHANGED <<kb, fkb, lock, flock, log>>

\* FactKB.add: the index update with fact_id, what kb.add returned
FIndex(t) ==
  /\ th[t].pc = "f_index"
  /\ fkb' = FactKB_index(fkb, th[t].dataset, th[t].answers.v, th[t].spans, th[t].ret)
  /\ th' = [th EXCEPT ![t].pc = "f_release"]
  /\ UNCHANGED <<kb, lock, flock, log>>

\* FactKB.add: finally, then return fact_id or the propagating error
FRelease(t) ==
  /\ th[t].pc = "f_release"
  /\ flock' = flock_release(t, th[t].raised)
  /\ th' = [th EXCEPT ![t].pc = IF th[t].raised THEN "raised" ELSE "done"]
  /\ UNCHANGED <<kb, fkb, lock, log>>

\* The steps of a call that has been entered.
Run(t) ==
  \/ KBAcquire(t) \/ KBLocked(t) \/ KBRelease(t) \/ KBReturn(t)
  \/ FAcquire(t) \/ FCheck(t) \/ FIndex(t) \/ FRelease(t)

NextConc == \E t \in Threads : Call(t) \/ Run(t)

SpecConc == Init /\ [][NextConc]_vars

\* The scheduler runs every thread that can take a step.
SpecFair == SpecConc /\ \A t \in Threads : WF_vars(Run(t))

----------------------------------------------------------------------------
(* What a caller can observe, and the calls recorded in log *)

Last(s) == s[Len(s)]

\* The step appends a call to log; LastCall' is that call.
IsCall == Len(log') = Len(log) + 1

\* ids mapped back to symbols through vocab
Decode(k, idseq) == [j \in 1..Len(idseq) |-> k.vocab[idseq[j] + 1]]

Indices(k, d) == 0..(KB_num_contexts(k, d) - 1)

\* Everything the read accessors return, with the vocabulary and the trackers.
View(k) ==
  [num_contexts |-> [d \in Datasets |-> KB_num_contexts(k, d)],
   context |-> [d \in Datasets |-> [i \in Indices(k, d) |-> KB_context(k, i, d)]],
   spans |-> [d \in Datasets |-> [i \in Indices(k, d) |-> KB_spans(k, i, d)]],
   answers |-> [d \in Datasets |-> [i \in Indices(k, d) |-> KB_answers(k, i, d)]],
   vocab |-> k.vocab, ids |-> k.ids, count |-> k.count,
   answer_vocab |-> k.answer_vocab, answer_ids |-> k.answer_ids,
   answer_count |-> k.answer_count,
   max_context_length |-> k.max_context_length,
   max_span_length |-> k.max_span_length]

IsAdd(c) == c.op = "add"

\* The add calls into partition d, in call order.
AddsInto(d) == SelectSeq(log, LAMBDA c : IsAdd(c) /\ c.dataset = d)

SpanStarts(spn) == [j \in 1..Len(spn) |-> spn[j][1]]

SpanEnds(spn) == [j \in 1..Len(spn) |-> spn[j][2]]

----------------------------------------------------------------------------
(* Claims about single calls *)

MismatchedAdd(c) ==
  IsAdd(c) /\ Len(c.spans) >= 1 /\ ~c.answers.isNone /\ Len(c.answers.v) # Len(c.spans)

\* C2: a KB.add with at least one span and a supplied answers list of another
\* length raises, and leaves every partition's num_contexts, contexts, spans and
\* answers, the vocabulary, its counts and the max-length trackers as they were.
C2_MismatchRaisesBeforeMutation ==
  [][(IsCall /\ MismatchedAdd(Last(log')))
       => (Last(log').raised /\ View(kb') = View(kb))]_vars

EmptySpansAdd(c) == IsAdd(c) /\ c.spans = <<>>

\* C3: a KB.add with an empty span list raises, creates no partition and leaves
\* every partition's num_contexts, contexts, spans and answers and the
\* vocabulary as they were.
C3_EmptySpansRejected ==
  [][(IsCall /\ EmptySpansAdd(Last(log')))
       => /\ Last(log').raised
          /\ DOMAIN kb'.contexts = DOMAIN kb.contexts
          /\ DOMAIN kb'.context_offsets = DOMAIN kb.context_offsets
          /\ View(kb') = View(kb)]_vars

\* An empty-span add was just rejected, into a partition that does not exist,
\* while another partition holds contexts.
C3_Witness ==
  /\ log # <<>>
  /\ EmptySpansAdd(Last(log))
  /\ Last(log).raised
  /\ Last(log).dataset \notin DOMAIN kb.contexts
  /\ \E d \in Datasets : KB_num_contexts(kb, d) >= 2

AllAddsSucceeded == \A n \in 1..Len(log) : IsAdd(log[n]) => ~log[n].raised

\* C5: when every KB.add so far succeeded, context(i, d) decodes through vocab
\* to the tokens of the i-th add into d and spans(i, d) is the start list and
\* the end list of that add's spans, for every partition d and stored i.
C5_RoundTrip ==
  AllAddsSucceeded =>
    \A d \in Datasets :
      /\ KB_num_contexts(kb, d) = Len(AddsInto(d))
      /\ \A i \in Indices(kb, d) :
           LET c == AddsInto(d)[i + 1]
               ctx == KB_context(kb, i, d)
           IN /\ ctx.err = "none"
              /\ Decode(kb, ctx.val) = c.context
              /\ KB_spans(kb, i, d) = Ok(<<SpanStarts(c.spans), SpanEnds(c.spans)>>)

\* Three successful adds, two of them into one partition, one with two spans,
\* and a reorder in between.
C5_Witness ==
  /\ AllAddsSucceeded
  /\ \E d \in Datasets : Len(AddsInto(d)) >= 2
  /\ \E n \in 1..Len(log) : IsAdd(log[n]) /\ Len(log[n].spans) >= 2
  /\ \E n \in 1..Len(log) : log[n].op = "order" /\ n > 1 /\ n < Len(log)

\* The symbols KB.add has interned: the tokens of every context that passed
\* the span check, and the answers of every add that stored them.
Interned ==
  UNION {{c.context[j] : j \in 1..Len(c.context)} :
           c \in {log[n] : n \in {m \in 1..Len(log) : IsAdd(log[m]) /\ log[m].spans # <<>>}}}
  \cup
  UNION {{c.answers.v[j] : j \in 1..Len(c.answers.v)} :
           c \in {log[n] : n \in {m \in 1..Len(log) : IsAdd(log[m]) /\ ~log[m].raised}}}

\* C6: vocab holds no symbol twice and symbol-to-id is a bijection onto
\* [0, len(vocab)) with vocab[id(s)] = s for every interned symbol s, also
\* under the ids order_vocab_by_freq assigns.
C6_VocabBijection ==
  /\ \A i, j \in 1..Len(kb.vocab) : kb.vocab[i] = kb.vocab[j] => i = j
  /\ DOMAIN kb.ids = Interned
  /\ \A s \in Interned :
       /\ KB_id(kb, s, -1) \in 0..(Len(kb.vocab) - 1)
       /\ kb.vocab[KB_id(kb, s, -1) + 1] = s
  /\ \A i \in 1..Len(kb.vocab) : KB_id(kb, kb.vocab[i], -1) = i - 1
  /\ Len(kb.count) = Len(kb.vocab)

\* A reorder has just moved the first symbol ever interned away from id 0.
C6_Witness ==
  /\ Len(log) >= 2
  /\ IsAdd(log[1]) /\ ~log[1].raised
  /\ Last(log).op = "order"
  /\ Len(kb.vocab) >= 3
  /\ KB_id(kb, log[1].context[1], -1) > 0

IsOrderCall == IsCall /\ Last(log').op = "order"

NonIncreasing(c) == \A i, j \in 1..Len(c) : i < j => c[i] >= c[j]

\* C7: right after order_vocab_by_freq returns the count array is
\* non-increasing and the count at the new id of every symbol is the count it
\* had at its old id, also for adds made after an earlier reorder.
C7_CountsSortedAndKept ==
  [][IsOrderCall
       => /\ NonIncreasing(kb'.count)
          /\ DOMAIN kb'.ids = DOMAIN kb.ids
          /\ \A s \in DOMAIN kb.ids :
               kb'.count[kb'.ids[s] + 1] = kb.count[kb.ids[s] + 1]]_vars

\* A second reorder has just run, after an add that followed the first one,
\* over counts that are not all equal.
C7_Witness ==
  /\ Len(log) >= 4
  /\ Last(log).op = "order"
  /\ \E m, n \in 1..Len(log) :
       /\ m < n /\ n < Len(log)
       /\ log[m].op = "order"
       /\ IsAdd(log[n]) /\ ~log[n].raised
  /\ \E i, j \in 1..Len(kb.count) : kb.count[i] > kb.count[j]

\* C8: order_vocab_by_freq keeps num_contexts, the decoded tokens and the
\* length of every context, spans, answers, answer_vocab and the max-length
\* trackers of every partition.
C8_ReorderFrame ==
  [][IsOrderCall
       => /\ \A d \in Datasets :
               /\ KB_num_contexts(kb', d) = KB_num_contexts(kb, d)
               /\ \A i \in Indices(kb, d) :
                    /\ KB_context(kb', i, d).err = "none"
                    /\ KB_context(kb, i, d).err = "none"
                    /\ Len(KB_context(kb', i, d).val) = Len(KB_context(kb, i, d).val)
                    /\ Decode(kb', KB_context(kb', i, d).val)
                         = Decode(kb, KB_context(kb, i, d).val)
                    /\ KB_spans(kb', i, d) = KB_spans(kb, i, d)
                    /\ KB_answers(kb', i, d) = KB_answers(kb, i, d)
          /\ kb'.answer_vocab = kb.answer_vocab
          /\ kb'.answer_ids = kb.answer_ids
          /\ kb'.max_context_length = kb.max_context_length
          /\ kb'.max_span_length = kb.max_span_length]_vars

\* A reorder has just rewritten the stored token of the first context added,
\* with two partitions and stored answers present.
C8_Witness ==
  /\ Len(log) >= 3
  /\ IsAdd(log[1]) /\ ~log[1].raised
  /\ Last(log).op = "order"
  /\ kb.contexts[log[1].dataset][1] # 0
  /\ DOMAIN kb.contexts = Datasets
  /\ \E d \in Datasets : kb.answers[d] # <<>>

\* C9: an order_vocab_by_freq call that directly follows another one changes
\* neither vocab, ids, counts nor any stored context array.
C9_SecondReorderNoOp ==
  [][(log # <<>> /\ Last(log).op = "order" /\ IsOrderCall)
       => /\ kb'.vocab = kb.vocab
          /\ kb'.ids = kb.ids
          /\ kb'.count = kb.count
          /\ kb'.contexts = kb.contexts
          /\ kb' = kb]_vars

\* Two reorders in a row have run over a vocabulary in which two symbols have
\* the same count.
C9_Witness ==
  /\ Len(log) >= 3
  /\ Last(log).op = "order"
  /\ log[Len(log) - 1].op = "order"
  /\ \E i, j \in 1..Len(kb.count) : i # j /\ kb.count[i] = kb.count[j]
  /\ \E d \in Datasets : KB_num_contexts(kb, d) >= 1

\* C10: in a partition whose every add passed answers=None, answers(i, d) is,
\* span by span, the token id at the span's start position in context i.
C10_AnswerDefault ==
  \A d \in Datasets :
    (\A n \in 1..Len(AddsInto(d)) : AddsInto(d)[n].answers.isNone)
      => \A i \in Indices(kb, d) :
           LET ctx == KB_context(kb, i, d).val
               st == KB_spans(kb, i, d).val[1]
           IN KB_answers(kb, i, d) = Ok([j \in 1..Len(st) |-> ctx[st[j] + 1]])

----------------------------------------------------------------------------
(* Claims about concurrent calls *)

Exited(t) == th[t].pc \in {"done", "raised"}

Returned(t) == th[t].pc = "done"

\* C1: when every thread has called KB.add once on one dataset, with
\* pairwise-distinct contexts and at least one span each, and all have
\* returned: num_contexts is the number of threads, the returned indices are
\* pairwise distinct and context(i) decodes to the tokens of the call that
\* returned i.
C1_AppendAtomicity ==
  (/\ \A t \in Threads : Returned(t) /\ th[t].kind = "kb" /\ Len(th[t].spans) >= 1
   /\ \A t, u \in Threads :
        /\ th[t].dataset = th[u].dataset
        /\ t # u => th[t].context # th[u].context)
    => \A t \in Threads :
         /\ KB_num_contexts(kb, th[t].dataset) = NumThreads
         /\ \A u \in Threads : t # u => th[t].ret # th[u].ret
         /\ KB_context(kb, th[t].ret, th[t].dataset).err = "none"
         /\ Decode(kb, KB_context(kb, th[t].ret, th[t].dataset).val) = th[t].context

\* C4: no call that has returned or raised holds the KB lock or the FactKB
\* lock, and under fair scheduling every call that was entered returns or
\* raises, whatever mix of KB.add and FactKB.add calls the threads make.
C4_LocksReleasedAndCallsEnd ==
  /\ [](\A t \in Threads : Exited(t) => (lock # t /\ flock # t))
  /\ \A t \in Threads : (th[t].pc # "idle") ~> Exited(t)

\* A FactKB.add and a direct KB.add have both ended, one of them by a failed
\* validation inside KB.add, and both locks are free.
C4_Witness ==
  /\ \A t \in Threads : Exited(t)
  /\ \E t, u \in Threads :
       /\ th[t].kind = "fact" /\ th[u].kind = "kb"
       /\ th[t].pc = "raised" /\ th[t].spans = <<>>
       /\ th[u].pc = "done"
  /\ lock = Free /\ flock = Free

----------------------------------------------------------------------------
(* Claims about stored answers, indices and partitions *)

\* The add calls into partition d that stored a context (they passed the
\* span assertion), in call order: the i-th is stored context i.
StoredAdds(d) == SelectSeq(log, LAMBDA c : IsAdd(c) /\ c.dataset = d /\ c.spans # <<>>)

DecodeAnswers(k, idseq) == [j \in 1..Len(idseq) |-> k.answer_vocab[idseq[j] + 1]]

\* C11: for every stored context i of a partition that was added with explicit
\* answers, answers(i, d) has one id per span of context i and decodes through
\* answer_vocab to the answers passed with it, whatever other adds (with
\* answers=None, or failing validation) went into the partition.
C11_AnswersAligned ==
  \A d \in Datasets :
    \A i \in 0..(Len(StoredAdds(d)) - 1) :
      LET c == StoredAdds(d)[i + 1]
          got == KB_answers(kb, i, d)
      IN (~c.raised /\ ~c.answers.isNone)
           => /\ got.err = "none"
              /\ Len(got.val) = Len(c.spans)
              /\ DecodeAnswers(kb, got.val) = c.answers.v


\* FactKB.fact_from_id: return self.__kb.context(fact_id, dataset)
FactKB_fact_from_id(k, fact_id, dataset) == KB_context(k, fact_id, dataset)

\* The integers tried as indices: every stored index, and those on either side.
ProbeIndices == (0 - MaxOps - 1)..(MaxOps + 1)

\* C12: context(i, d), spans(i, d) and fact_from_id(i, d) raise for every integer
\* i outside [0, num_contexts(d)), negative ones included: no value comes back
\* for such an index.
C12_OutOfRangeRaises ==
  \A d \in Datasets :
    \A i \in ProbeIndices \ Indices(kb, d) :
      /\ KB_context(kb, i, d).err # "none"
      /\ KB_spans(kb, i, d).err # "none"
      /\ FactKB_fact_from_id(kb, i, d).err # "none"


\* What the accessors show of stored context i of partition d, tokens decoded.
Stored(k, i, d) ==
  LET c == KB_context(k, i, d)
  IN [context |-> IF c.err = "none" THEN Ok(Decode(k, c.val)) ELSE c,
      spans |-> KB_spans(k, i, d),
      answers |-> KB_answers(k, i, d)]

\* C13: an add into one partition, whether it returns or raises, leaves every
\* other partition as it was: the same num_contexts, and for every stored index
\* the same decoded context, the same spans and the same answers.
C13_PartitionIsolation ==
  [][(IsCall /\ IsAdd(Last(log')))
       => \A d \in Datasets \ {Last(log').dataset} :
            /\ KB_num_contexts(kb', d) = KB_num_contexts(kb, d)
            /\ \A i \in Indices(kb, d) : Stored(kb', i, d) = Stored(kb, i, d)]_vars

\* A context with answers is stored in "train"; then "valid" is created by a
\* successful add and receives an add that fails after storing its context.
C13_Witness ==
  /\ Len(log) >= 3
  /\ IsAdd(log[1]) /\ log[1].dataset = "train" /\ ~log[1].raised
  /\ ~log[1].answers.isNone
  /\ IsAdd(log[2]) /\ log[2].dataset = "valid" /\ ~log[2].raised
  /\ MismatchedAdd(log[3]) /\ log[3].dataset = "valid" /\ log[3].raised
  /\ KB_num_contexts(kb, "train") = 1
  /\ KB_num_contexts(kb, "valid") = 2


----------------------------------------------------------------------------
(* Claims about the entity index *)

IsFactAdd(c) == c.op = "fact_add"

\* The entity names FactInputs can produce, and one no fact mentions.
EntityNames == {"Paris", "France", "Europe", "New_York", "Nobody"}

\* One copy of the returned fact id per mention of e in the entity list of each
\* FactKB.add into d that returned, in call order.
RECURSIVE Mentions(_, _, _)
Mentions(calls, e, d) ==
  IF calls = <<>> THEN <<>>
  ELSE LET c == Head(calls)
           hits == IF IsFactAdd(c) /\ c.dataset = d /\ ~c.raised
                   THEN SelectSeq(entity_names(c.context, c.spans, c.answers),
                                  LAMBDA n : n = e)
                   ELSE <<>>
       IN [j \in 1..Len(hits) |-> c.ret] \o Mentions(Tail(calls), e, d)

\* C14: for every partition that received a fact and every entity, by name or
\* by id, facts_about is the list of the fact ids the adds into that partition
\* returned, one entry per mention of the entity, in call order; and for a name
\* that was never added facts_about is the empty list, whatever the partition.
C14_FactsAbout ==
  /\ \A d \in DOMAIN fkb.facts :
       \A e \in DOMAIN fkb.entity_ids :
         /\ FactKB_facts_about(fkb, PyStr(e), d) = Ok(Mentions(log, e, d))
         /\ FactKB_facts_about(fkb, PyInt(fkb.entity_ids[e]), d) = Ok(Mentions(log, e, d))
  /\ \A d \in Datasets :
       \A e \in EntityNames \ DOMAIN fkb.entity_ids :
         FactKB_facts_about(fkb, PyStr(e), d) = Ok(<<>>)

\* "Paris" is mentioned once by fact 0 and twice by fact 1 of "train", "France"
\* by fact 0 of both partitions, and "Europe" was never added.
C14_Witness ==
  /\ DOMAIN fkb.facts = {"train", "valid"}
  /\ FactKB_facts_about(fkb, PyStr("Paris"), "train") = Ok(<<0, 1, 1>>)
  /\ FactKB_facts_about(fkb, PyStr("France"), "train") = Ok(<<0>>)
  /\ FactKB_facts_about(fkb, PyStr("France"), "valid") = Ok(<<0>>)
  /\ "Europe" \notin DOMAIN fkb.entity_ids
  /\ \E n \in 1..Len(log) : IsFactAdd(log[n]) /\ log[n].raised


\* C15: for every FactKB.add that returned fact id r for partition d,
\* fact_entities(r, d) succeeds and its span list is the entity_spans passed to
\* that call, in order.
C15_FactEntitiesReverseView ==
  \A n \in 1..Len(log) :
    (IsFactAdd(log[n]) /\ ~log[n].raised)
      => LET got == FactKB_fact_entities(fkb, log[n].ret, log[n].dataset)
         IN got.err = "none" /\ got.val[2] = log[n].spans


----------------------------------------------------------------------------
(* The iterators of KB *)

\* context, spans and answers as Python evaluates them on arguments of any
\* type: self.__context_offsets[dataset] raises KeyError unless dataset is a
\* key of the dict (the keys are partition names), and a list index must be an
\* int.
KB_context_py(k, i, dataset) ==
  IF dataset.tag # "str" THEN Err("KeyError")
  ELSE IF dataset.s \notin DOMAIN k.context_offsets THEN Err("KeyError")
  ELSE IF i.tag # "int" THEN Err("TypeError")
  ELSE KB_context(k, i.n, dataset.s)

KB_spans_py(k, i, dataset) ==
  IF dataset.tag # "str" THEN Err("KeyError")
  ELSE IF dataset.s \notin DOMAIN k.span_offsets THEN Err("KeyError")
  ELSE IF i.tag # "int" THEN Err("TypeError")
  ELSE KB_spans(k, i.n, dataset.s)

KB_answers_py(k, i, dataset) ==
  IF dataset.tag # "str" THEN Err("KeyError")
  ELSE IF dataset.s \notin DOMAIN k.span_offsets THEN Err("KeyError")
  ELSE IF i.tag # "int" THEN Err("TypeError")
  ELSE KB_answers(k, i.n, dataset.s)

\* A generator run to its end, results[i + 1] being what evaluating the i-th
\* yield expression gives: it yields the values before the first evaluation
\* that raises, then raises.
Generate(results) ==
  LET bad == {i \in 1..Len(results) : results[i].err # "none"}
      m == IF bad = {} THEN Len(results) + 1 ELSE CHOOSE i \in bad : \A j \in bad : i <= j
  IN [items |-> [i \in 1..(m - 1) |-> results[i].val],
      err |-> IF bad = {} THEN "none" ELSE results[m].err]

\* for i in range(len(self.__context_offsets[dataset])): yield self.context(dataset, i)
\* (the arguments arrive as i=dataset, dataset=i).
KB_iter_contexts(k, dataset) ==
  IF dataset \notin DOMAIN k.context_offsets THEN [items |-> <<>>, err |-> "KeyError"]
  ELSE Generate([i \in 1..Len(k.context_offsets[dataset]) |->
                   KB_context_py(k, PyStr(dataset), PyInt(i - 1))])

\* yield self.spans(dataset, i)
KB_iter_spans(k, dataset) ==
  IF dataset \notin DOMAIN k.span_offsets THEN [items |-> <<>>, err |-> "KeyError"]
  ELSE Generate([i \in 1..Len(k.span_offsets[dataset]) |->
                   KB_spans_py(k, PyStr(dataset), PyInt(i - 1))])

\* yield self.answers(dataset, i)
KB_iter_answers(k, dataset) ==
  IF dataset \notin DOMAIN k.span_offsets THEN [items |-> <<>>, err |-> "KeyError"]
  ELSE Generate([i \in 1..Len(k.span_offsets[dataset]) |->
                   KB_answers_py(k, PyStr(dataset), PyInt(i - 1))])

\* C16: for a partition with n >= 1 stored contexts, iter_contexts, iter_spans
\* and iter_answers each run to the end without raising and yield n items, the
\* i-th being context(i, d), spans(i, d) and answers(i, d).
C16_IteratorsYieldAll ==
  \A d \in Datasets :
    LET n == KB_num_contexts(kb, d)
    IN n >= 1
         => /\ KB_iter_contexts(kb, d) =
                 [items |-> [i \in 1..n |-> KB_context(kb, i - 1, d).val], err |-> "none"]
            /\ KB_iter_spans(kb, d) =
                 [items |-> [i \in 1..n |-> KB_spans(kb, i - 1, d).val], err |-> "none"]
            /\ KB_iter_answers(kb, d) =
                 [items |-> [i \in 1..n |-> KB_answers(kb, i - 1, d).val], err |-> "none"]


----------------------------------------------------------------------------
(* Claims about the vocabularies and the trackers *)

\* w = self.answer_vocab[answer_id]; return self.id(w)
KB_answer_id_to_word_id(k, answer_id) ==
  IF ~PyIndexOK(k.answer_vocab, answer_id) THEN Err("IndexError")
  ELSE Ok(KB_id(k, PyGet(k.answer_vocab, answer_id), -1))

\* C17: for every answer id a, answer_id_to_word_id(a) is an id of the word
\* vocabulary, never the fallback -1, and the word stored there is the answer
\* string of a.
C17_AnswerBridge ==
  \A a \in 0..(Len(kb.answer_vocab) - 1) :
    LET w == KB_answer_id_to_word_id(kb, a)
    IN /\ w.err = "none"
       /\ w.val \in 0..(Len(kb.vocab) - 1)
       /\ kb.vocab[w.val + 1] = kb.answer_vocab[a + 1]

\* Two or more answers are interned, the vocabulary was just reordered, and
\* some answer's word id differs from its answer id.
C17_Witness ==
  /\ Len(kb.answer_vocab) >= 2
  /\ log # <<>> /\ Last(log).op = "order"
  /\ kb.ordered
  /\ \E a \in 0..(Len(kb.answer_vocab) - 1) :
       /\ KB_answer_id_to_word_id(kb, a).val # a
       /\ KB_answer_id_to_word_id(kb, a).val >= 0


\* C18 as stated: order_vocab_by_freq is a stable descending sort; of two
\* symbols with equal counts the one with the smaller id before the call has
\* the smaller id after it.
C18_StableDescending ==
  [][IsOrderCall
       => \A s, t \in DOMAIN kb.ids :
            (kb.count[kb.ids[s] + 1] = kb.count[kb.ids[t] + 1] /\ kb.ids[s] < kb.ids[t])
              => kb'.ids[s] < kb'.ids[t]]_vars

\* C18: order_vocab_by_freq sorts by descending count; of two symbols with
\* different counts the one with the larger count has the smaller id after the
\* call.  (Symbols with equal counts come out in no fixed order.)
C18_DescendingByCount ==
  [][IsOrderCall
       => \A s, t \in DOMAIN kb.ids :
            kb.count[kb.ids[s] + 1] > kb.count[kb.ids[t] + 1]
              => kb'.ids[s] < kb'.ids[t]]_vars

\* The first call stored a context whose first token then had id 0; a reorder
\* has just moved that token behind a symbol with a larger count, in a
\* vocabulary that also holds two symbols of equal count.
C18_Witness ==
  /\ Len(log) >= 2 /\ Last(log).op = "order"
  /\ kb.ordered
  /\ IsAdd(log[1]) /\ ~log[1].raised
  /\ kb.ids[log[1].context[1]] > 0
  /\ kb.count[kb.ids[log[1].context[1]] + 1] < kb.count[1]
  /\ \E i, j \in 1..Len(kb.count) : i < j /\ kb.count[i] = kb.count[j]

\* The largest element of a set of naturals, 0 for the empty set.
SetMax(S) == IF S = {} THEN 0 ELSE CHOOSE x \in S : \A y \in S : x >= y

\* The lengths of the stored contexts, and their numbers of spans.
StoredContextLengths(k) ==
  {Len(KB_context(k, i, d).val) : <<d, i>> \in {<<d, i>> \in Datasets \X (0..(MaxOps + 1)) : i \in Indices(k, d)}}

StoredSpanCounts(k) ==
  {Len(KB_spans(k, i, d).val[1]) : <<d, i>> \in {<<d, i>> \in Datasets \X (0..(MaxOps + 1)) : i \in Indices(k, d)}}

\* C19: after every call, returned or raised, max_context_length is the length
\* of the longest stored context and max_span_length the largest number of
\* spans stored for one context (0 when nothing is stored), and neither
\* tracker is smaller than before the call.
C19_TrackersAreMaxima ==
  [][/\ kb'.max_context_length = SetMax(StoredContextLengths(kb'))
     /\ kb'.max_span_length = SetMax(StoredSpanCounts(kb'))
     /\ kb'.max_context_length >= kb.max_context_length
     /\ kb'.max_span_length >= kb.max_span_length]_vars


\* C20: whenever the FactKB lock is free, every partition of the entity index
\* holds one fact list and one span list per known entity, and the two lists
\* of an entity have the same length.
C20_EntityArraysAligned ==
  flock = Free
    => \A d \in DOMAIN fkb.entity_ctxt :
         /\ d \in DOMAIN fkb.entity_ctxt_span
         /\ Len(fkb.entity_ctxt[d]) = Len(fkb.entity_vocab)
         /\ Len(fkb.entity_ctxt_span[d]) = Len(fkb.entity_vocab)
         /\ \A e \in 1..Len(fkb.entity_vocab) :
              Len(fkb.entity_ctxt[d][e]) = Len(fkb.entity_ctxt_span[d][e])

\* "train" got the first fact, so "valid" was created when entities 0 and 1
\* existed; a later fact brought an entity that only one partition
\* mentions, and entity 0 is mentioned in "train" only.
C20_Witness ==
  /\ flock = Free
  /\ DOMAIN fkb.entity_ctxt = {"train", "valid"}
  /\ Len(fkb.entity_vocab) >= 3
  /\ Len(log) >= 2 /\ IsFactAdd(log[1]) /\ ~log[1].raised /\ log[1].dataset = "train"
  /\ fkb.entity_ctxt["train"][1] # <<>> /\ fkb.entity_ctxt["valid"][1] = <<>>
  /\ fkb.entity_ctxt["train"][3] = <<>> /\ fkb.entity_ctxt["valid"][3] # <<>>


----------------------------------------------------------------------------
(* Claims about concurrent FactKB.add and about reordering after a failed add *)

\* The entity names the threads' facts can produce.
ThreadEntityNames == {"p", "f", "e", "p_p"}

\* The set of fact ids facts_about returns for entity e of partition d.
FactIdsAbout(f, e, d) ==
  LET r == FactKB_facts_about(f, PyStr(e), d)
  IN IF r.err = "none" THEN {r.val[j] : j \in 1..Len(r.val)} ELSE {}

\* C21: when every thread has called FactKB.add (none calls KB.add directly)
\* and every call has ended, then for each call that returned: its fact id
\* differs from that of every other returned call into the same partition,
\* fact_from_id of it decodes to the call's own tokens, and facts_about(e, d)
\* contains it for exactly the entities e of the call.
C21_ConcurrentFactAdd ==
  (\A t \in Threads : th[t].kind = "fact" /\ Exited(t))
    => \A t \in Threads :
         Returned(t)
           => /\ \A u \in Threads :
                   (u # t /\ Returned(u) /\ th[u].dataset = th[t].dataset)
                     => th[u].ret # th[t].ret
              /\ FactKB_fact_from_id(kb, th[t].ret, th[t].dataset).err = "none"
              /\ Decode(kb, FactKB_fact_from_id(kb, th[t].ret, th[t].dataset).val)
                   = th[t].context
              /\ \A e \in ThreadEntityNames :
                   (th[t].ret \in FactIdsAbout(fkb, e, th[t].dataset))
                     <=> (\E j \in 1..Len(th[t].answers.v) : th[t].answers.v[j] = e)

\* Two FactKB.add calls with different facts have both returned, with the
\* fact ids 0 and 1, and no thread called KB.add.
C21_Witness ==
  /\ \A t \in Threads : th[t].kind = "fact" /\ Exited(t)
  /\ \E t, u \in Threads :
       /\ Returned(t) /\ Returned(u)
       /\ th[t].context # th[u].context
       /\ th[t].ret = 0 /\ th[u].ret = 1
       /\ th[t].answers.v # th[u].answers.v


\* The state order_vocab_by_freq can leave when it runs on k: one per order
\* np.argsort can return.
Reordered(k) == {KB_order_vocab_by_freq(k, p) : p \in argsort(k.count)}

\* C22: when order_vocab_by_freq has just run and the next call is a KB.add
\* that raises, an order_vocab_by_freq after it leaves vocab, every symbol's
\* id, the counts and every stored context array as they were before the add.
C22_FailedAddThenReorder ==
  [][(/\ IsCall /\ IsAdd(Last(log')) /\ Last(log').raised
      /\ log # <<>> /\ Last(log).op = "order")
       => \A k2 \in Reordered(kb') :
            /\ k2.vocab = kb.vocab
            /\ k2.ids = kb.ids
            /\ k2.count = kb.count
            /\ k2.contexts = kb.contexts]_vars
====
